---- MODULE Spec2Model ----
(***************************************************************************)
(* Model of the Spanner migration orchestration of deployment-tools.       *)
(*                                                                         *)
(* Two revisions of the orchestrator live in the repository:               *)
(*   "Client"  - internal/spannermigrate (sentinel save/restore protocol)  *)
(*   "Service" - internal/migration      (read version / UPDATE version)   *)
(* `impl` selects the revision a behaviour runs.                           *)
(*                                                                         *)
(* The ledger is the SchemaMigrations table: a set of rows                 *)
(* [Version, Dirty].  Every store call (a transaction, a single read, a    *)
(* step's ledger write, a script execution) is one atomic action.          *)
(*                                                                         *)
(* The Step Applier (migrate.Migrate.Up of the migrate library) is not     *)
(* part of the repository sources; it is modelled from section 4.2 of the  *)
(* specification.                                                          *)
(***************************************************************************)
EXTENDS Integers, Sequences, FiniteSets, TLC

VARIABLES impl, ledger, proc, calls, schemaApplied, dataFailed, cli, build

vars == <<impl, ledger, proc, calls, schemaApplied, dataFailed, cli, build>>

(***************************************************************************)
(* Bounds of the model.                                                    *)
(***************************************************************************)
\* highest version a migration step may carry
MaxVersion == 2
\* longest list of data sources handed to MigrateUpData
MaxSources == 2
\* number of invocations in one behaviour
MaxCalls == 2
\* longest value of _DB_DROP_ENV_WHITELIST, in tokens
MaxListLen == 3
\* most comments ListComments returns
MaxComments == 2
\* most commits CompareCommits reports the build's commit behind by
MaxBehind == 2
\* highest instance number listed in _FEATURE_TESTING_CUSTOM_DBS
MaxCustomDB == 2

(***************************************************************************)
(* Program constants.                                                      *)
(***************************************************************************)
defaultSchemaVersion == -1

Impls == {"Client", "Service"}

\* processes that may invoke the orchestrator; Spec runs process 1 alone
Procs == {1, 2}

(***************************************************************************)
(* Data model.                                                             *)
(***************************************************************************)
Versions == 1..MaxVersion

\* a migration source, resolved: the set of versions of its up steps
SourceSet == (SUBSET Versions) \ {{}}

RECURSIVE SeqsOf(_, _)
SeqsOf(S, n) ==
    IF n = 0 THEN {<<>>}
    ELSE LET shorter == SeqsOf(S, n - 1)
         IN  shorter \cup {Append(s, x) : s \in {t \in shorter : Len(t) = n - 1}, x \in S}

\* bootstrap's ValidateFlags: at least one data dir
ValidateFlags(urls) == Len(urls) # 0

UrlLists == {u \in SeqsOf(SourceSet, MaxSources) : ValidateFlags(u)}

Row(v, d) == [Version |-> v, Dirty |-> d]

\* the struct MigrateUpData scans the ledger row into
\* mutant: the Dirty column is not read
schemaMigration_clean(v, d) == [Version |-> v, Dirty |-> FALSE]

schemaMigration(v, d) == [Version |-> v, Dirty |-> d]

\* spxscan.Get of "SELECT Version, Dirty FROM SchemaMigrations": the one row
ReadRow(l) == CHOOSE r \in l : TRUE

\* "SELECT version FROM schema_migrations ORDER BY version DESC LIMIT 1"
ReadCurVersion(l) == (CHOOSE r \in l : \A q \in l : q.Version <= r.Version).Version

\* Delete(AllKeys) + Insert(row) buffered in one transaction
ReplaceAll(r) == {r}

\* "UPDATE schema_migrations SET version = @version WHERE true"
UpdateVersion(l, v) == {[r EXCEPT !.Version = v] : r \in l}

Min(S) == CHOOSE x \in S : \A y \in S : x <= y

\* Step Applier: the steps of a source that are pending at ledger version v
Pending(steps, v) == {s \in steps : s > v}


(***************************************************************************)
(* One invocation of the orchestrator (its locals and its position).       *)
(*   pc      position in the code ("returned": back in the caller)         *)
(*   op      "schema" (MigrateUpSchema) or "data" (MigrateUpData)          *)
(*   urls    sourceURLs, each resolved to its set of step versions         *)
(*   idx     iteration of `for _, sourceURL := range sourceURLs`           *)
(*   ver     the Step Applier's current version                            *)
(*   pending the Step Applier's steps still to apply for this source       *)
(*   cur     the step being applied                                        *)
(*   saved   schemaMigration / curVersion read when the call started       *)
(*   result  what the call returned                                        *)
(*   pre     (history) the ledger when the call was made                   *)
(*   log     (history) Step Applier events of this call                    *)
(*   window  (history) "closed", "open" once the sentinel write committed, *)
(*           "restored" once the restore transaction committed             *)
(*   prev    (history) the source of the call before this one when that    *)
(*           call was a MigrateUpSchema that returned nil, else NoPrev     *)
(*   orig    (history) the ledger before the call before this one when     *)
(*           that call was a MigrateUpData that returned an error with its *)
(*           window open and left the ledger clean, else NoOrig            *)
(*   stopped (history) the position at which the run before this one was   *)
(*           interrupted, "none" when it was not                           *)
(***************************************************************************)
NoPrev == <<>>
NoOrig == {}

IdleProc ==
    [pc |-> "idle", op |-> "none", urls |-> <<>>, idx |-> 0, ver |-> 0,
     pending |-> {}, cur |-> 0, saved |-> schemaMigration(0, FALSE),
     result |-> "none", pre |-> {}, log |-> <<>>, window |-> "closed",
     prev |-> NoPrev, orig |-> NoOrig, stopped |-> "none"]

\* os.LookupEnv: the value and whether the variable is set
EnvVar(ok, val) == [ok |-> ok, val |-> val]
Unset == EnvVar(FALSE, <<>>)

\* no command is running
NoCli ==
    [cmd |-> "none", rev |-> "none", pc |-> "idle", appEnv |-> Unset,
     whitelist |-> Unset, schemaDir |-> "", dataDirs |-> 0, called |-> {},
     failed |-> {}, runErr |-> "none", exit |-> "none"]

\* no build is being resolved
NoBuild ==
    [pc |-> "idle", TagName |-> "", PRNumber |-> 0, FeatureTestingCustomDBs |-> {},
     FeatureTestingSpannerDatabaseName |-> <<>>, compared |-> FALSE, BehindBy |-> 0,
     fetched |-> FALSE, comments |-> <<>>, instance |-> 0, TargetAppCode |-> "", SpannerDatabaseName |-> <<>>,
     err |-> "none", script |-> "none"]

Event(e, i, v) == [ev |-> e, src |-> i, v |-> v]

\* the ledger before any invocation: pre-provisioned with one row at a real
\* schema version (clean, or left dirty), or not yet holding a row
InitLedgers == {{}} \cup {{Row(v, d)} : v \in 0..MaxVersion, d \in BOOLEAN}

Init ==
    /\ impl \in Impls
    /\ ledger \in InitLedgers
    /\ proc = [p \in Procs |-> IdleProc]
    /\ calls = 0
    /\ schemaApplied = IF ledger = {} THEN defaultSchemaVersion ELSE ReadRow(ledger).Version
    /\ dataFailed = FALSE
    /\ cli = NoCli
    /\ build = NoBuild

\* the call of p returns res, its locals being r
Return(p, r, res) ==
    /\ proc' = [proc EXCEPT ![p] = [r EXCEPT !.pc = "returned", !.result = res]]
    /\ dataFailed' = (dataFailed \/ (r.op = "data" /\ res # "nil"))

\* mutant: MigrateUpSchema runs blind too, behind the save of the ledger
EntryPoint_blind(op) == IF impl = "Client" THEN "tx1" ELSE "read"

\* mutant: MigrateUpData goes to the loop without saving the ledger
EntryPoint_noSave(op) == "loop"

\* first statement a call executes
EntryPoint(op) ==
    IF op = "schema" THEN "loop"
    ELSE IF impl = "Client" THEN "tx1" ELSE "read"

\* the caller (bootstrap's Run) invokes MigrateUpSchema(dir) or
\* MigrateUpData(dirs...)
Call(p) ==
    /\ proc[p].pc = "idle"
    /\ calls < MaxCalls
    /\ \E op \in {"schema", "data"}, urls \in UrlLists :
         /\ op = "schema" => Len(urls) = 1
         /\ proc' = [proc EXCEPT ![p] =
                [IdleProc EXCEPT !.pc = EntryPoint(op), !.op = op, !.urls = urls,
                                 !.idx = 1, !.pre = ledger, !.prev = proc[p].prev,
                                 !.orig = proc[p].orig,
                                 !.stopped = proc[p].stopped]]
    /\ calls' = calls + 1
    /\ UNCHANGED <<impl, ledger, schemaApplied, dataFailed>>

(***************************************************************************)
(* Client.MigrateUpData: the first read-write transaction.                 *)
(***************************************************************************)
\* the row the open-window transaction inserts
OpenRow == Row(defaultSchemaVersion, FALSE)

\* mutant: the dirty check is missing
DirtyCheck_off(saved) == FALSE

\* `if schemaMigration.Dirty` after the transaction
DirtyCheck(saved) == saved.Dirty

\* mutant: the buffered writes of the failed transaction are applied
OpenWindowFail_torn(p) ==
    /\ proc[p].pc = "tx1"
    /\ ledger' = ReplaceAll(OpenRow)
    /\ Return(p, proc[p], "LedgerUnreadable")
    /\ UNCHANGED <<impl, calls, schemaApplied>>

\* the transaction does not commit: spxscan.Get finds no row, or the store
\* fails the read or the commit; nothing is written
OpenWindowFail(p) ==
    /\ proc[p].pc = "tx1"
    /\ Return(p, proc[p], "LedgerUnreadable")
    /\ UNCHANGED <<impl, ledger, calls, schemaApplied>>

\* the transaction commits: the row is read into schemaMigration and replaced
\* by the sentinel row; the dirty check follows the commit
OpenWindow(p) ==
    /\ proc[p].pc = "tx1"
    /\ ledger # {}
    /\ LET r == [proc[p] EXCEPT !.saved = schemaMigration(ReadRow(ledger).Version,
                                                         ReadRow(ledger).Dirty)]
           w == [r EXCEPT !.window = "open"]
       IN  /\ ledger' = ReplaceAll(OpenRow)
           /\ IF DirtyCheck(r.saved)
              THEN Return(p, w, "DirtyLedger")
              ELSE /\ proc' = [proc EXCEPT ![p] = [w EXCEPT !.pc = "loop"]]
                   /\ UNCHANGED dataFailed
    /\ UNCHANGED <<impl, calls, schemaApplied>>

(***************************************************************************)
(* SpannerMigrationService.MigrateUpData: the single read of curVersion.   *)
(***************************************************************************)
ReadVersionFail(p) ==
    /\ proc[p].pc = "read"
    /\ Return(p, proc[p], "LedgerUnreadable")
    /\ UNCHANGED <<impl, ledger, calls, schemaApplied>>

ReadVersion(p) ==
    /\ proc[p].pc = "read"
    /\ ledger # {}
    /\ proc' = [proc EXCEPT ![p] =
           [@ EXCEPT !.pc = "loop", !.saved = schemaMigration(ReadCurVersion(ledger), FALSE)]]
    /\ UNCHANGED <<impl, ledger, calls, schemaApplied, dataFailed>>

(***************************************************************************)
(* The loop over sourceURLs and migrateUp.                                 *)
(***************************************************************************)
\* mutant: every iteration takes the first source again
NextSource_again(urls, k) == 1

\* mutant: the list is walked from its end
NextSource_reversed(urls, k) == Len(urls) - k + 1

\* `for _, sourceURL := range sourceURLs`: position in the caller's list of
\* the source the k-th iteration applies
NextSource(urls, k) == k

\* mutant: a failed source is logged and the loop goes on with the next one
LoopOnError_continue(r) == IF r.idx < Len(r.urls) THEN "loop" ELSE "returned"

\* mutant: a failed source sends the call to the restore transaction
LoopOnError_restore(r) == IF r.op = "data" THEN "restore" ELSE "returned"

\* `if err := s.migrateUp(sourceURL); err != nil { return ... }` (and the same
\* test of m.Up() in MigrateUpSchema): where the call goes when applying the
\* source of iteration idx failed
LoopOnError(r) == "returned"

\* mutant: ErrNoChange is taken for success
WrapErr_noChangeIsNil(err) == IF err = "ErrNoChange" THEN "nil" ELSE err

\* errors.Wrapf(err, ...): the error returned is still the error of m.Up()
WrapErr(err) == err

\* applying the source of the current iteration of p failed with err
SourceFailed(p, r, err) ==
    IF LoopOnError(r) = "returned"
    THEN Return(p, r, WrapErr(err))
    ELSE /\ proc' = [proc EXCEPT ![p] = [r EXCEPT !.pc = LoopOnError(r), !.idx = @ + 1]]
         /\ UNCHANGED dataFailed

\* newMigrate fails (the source cannot be resolved, the driver cannot be
\* set up): migrateUp returns the error to the loop
MigrateUpSourceError(p) ==
    /\ proc[p].pc = "loop"
    /\ SourceFailed(p, proc[p], "SourceError")
    /\ UNCHANGED <<impl, ledger, calls, schemaApplied>>

\* Step Applier, steps 1 and 2, and the choice of the pending steps:
\* what m.Up() answers before any step, "" when steps are pending
UpOutcome(l, steps) ==
    IF l = {} THEN "LedgerUnreadable"
    ELSE IF ReadRow(l).Dirty THEN "ErrDirty"
    ELSE IF Pending(steps, ReadRow(l).Version) = {} THEN "ErrNoChange"
    ELSE ""

\* migrateUp(sourceURL): newMigrate succeeded and m.Up() starts; an error
\* of m.Up() is returned by migrateUp to the loop
MigrateUp(p) ==
    /\ proc[p].pc = "loop"
    /\ LET i     == NextSource(proc[p].urls, proc[p].idx)
           steps == proc[p].urls[i]
           out   == UpOutcome(ledger, steps)
           r     == [proc[p] EXCEPT !.log = Append(@, Event("up", i, 0))]
       IN  IF out # ""
           THEN SourceFailed(p, r, out)
           ELSE /\ proc' = [proc EXCEPT ![p] =
                       [r EXCEPT !.pc = "step",
                                 !.ver = ReadRow(ledger).Version,
                                 !.pending = Pending(steps, ReadRow(ledger).Version)]]
                /\ UNCHANGED dataFailed
    /\ UNCHANGED <<impl, ledger, calls, schemaApplied>>

\* Step Applier, step 3: mark the ledger dirty, version unchanged
StepBegin(p) ==
    /\ proc[p].pc = "step"
    /\ LET i == NextSource(proc[p].urls, proc[p].idx)
           v == Min(proc[p].pending)
       IN  /\ ledger' = ReplaceAll(Row(proc[p].ver, TRUE))
           /\ proc' = [proc EXCEPT ![p] =
                  [@ EXCEPT !.pc = "exec", !.cur = v,
                            !.log = Append(@, Event("begin", i, v))]]
    /\ UNCHANGED <<impl, calls, schemaApplied, dataFailed>>

\* the step's script runs to its end
StepRun(p) ==
    /\ proc[p].pc = "exec"
    /\ LET i == NextSource(proc[p].urls, proc[p].idx)
       IN  proc' = [proc EXCEPT ![p] =
               [@ EXCEPT !.pc = "commit",
                         !.log = Append(@, Event("ran", i, proc[p].cur))]]
    /\ UNCHANGED <<impl, ledger, calls, schemaApplied, dataFailed>>

\* Step Applier, step 4: the script fails; the ledger stays dirty and
\* m.Up() returns the error, which migrateUp returns to the loop
StepFail(p) ==
    /\ proc[p].pc = "exec"
    /\ LET i == NextSource(proc[p].urls, proc[p].idx)
       IN  SourceFailed(p, [proc[p] EXCEPT !.log = Append(@, Event("failed", i, proc[p].cur))],
                        "StepFailed")
    /\ UNCHANGED <<impl, ledger, calls, schemaApplied>>

\* mutant: past the loop MigrateUpData waits, the window left open
AfterSource_wait(r) ==
    IF r.idx < Len(r.urls) THEN "loop"
    ELSE IF r.op = "schema" THEN "returned"
    ELSE "waiting"

\* mutant: MigrateUpSchema ends with the restore transaction as well
AfterSource_restore(r) == IF r.idx < Len(r.urls) THEN "loop" ELSE "restore"

\* where the call goes once m.Up() returned nil for iteration idx:
\* the next iteration, or past the loop
AfterSource(r) ==
    IF r.idx < Len(r.urls) THEN "loop"
    ELSE IF r.op = "schema" THEN "returned"
    ELSE "restore"

\* where the call is once m.Up() returned nil: SpannerMigrationService calls
\* m.Close() and tests its two errors before it goes on, Client does not
\* close the migrate instance here (Client.Close does, its errors logged)
UpReturned(r) == IF impl = "Service" THEN "close" ELSE AfterSource(r)

\* Step Applier, step 3, completion: clean ledger at the step's version;
\* then the next pending step, or m.Up() returns nil
StepCommit(p) ==
    /\ proc[p].pc = "commit"
    /\ LET i    == NextSource(proc[p].urls, proc[p].idx)
           v    == proc[p].cur
           rest == proc[p].pending \ {v}
           r    == [proc[p] EXCEPT !.ver = v, !.pending = rest,
                                   !.log = Append(@, Event("commit", i, v))]
       IN  /\ ledger' = ReplaceAll(Row(v, FALSE))
           /\ schemaApplied' = IF r.op = "schema" THEN v ELSE schemaApplied
           /\ IF rest # {}
              THEN /\ proc' = [proc EXCEPT ![p] = [r EXCEPT !.pc = "step"]]
                   /\ UNCHANGED dataFailed
              ELSE IF UpReturned(r) = "returned"
              THEN Return(p, r, "nil")
              ELSE /\ proc' = [proc EXCEPT ![p] =
                          [r EXCEPT !.pc = UpReturned(r),
                                    !.idx = IF UpReturned(r) = "loop" THEN @ + 1 ELSE @]]
                   /\ UNCHANGED dataFailed
    /\ UNCHANGED <<impl, calls>>

\* SpannerMigrationService: m.Close() after m.Up() returned nil gives no
\* error; MigrateUpSchema returns nil, migrateUp returns nil to the loop
CloseSource(p) ==
    /\ proc[p].pc = "close"
    /\ LET r == proc[p]
       IN  IF AfterSource(r) = "returned"
           THEN Return(p, r, "nil")
           ELSE /\ proc' = [proc EXCEPT ![p] =
                       [r EXCEPT !.pc = AfterSource(r),
                                 !.idx = IF AfterSource(r) = "loop" THEN @ + 1 ELSE @]]
                /\ UNCHANGED dataFailed
    /\ UNCHANGED <<impl, ledger, calls, schemaApplied>>

\* SpannerMigrationService: m.Close() gives a source or a database error,
\* which is returned in the place of nil; the steps stay applied
CloseSourceFail(p) ==
    /\ proc[p].pc = "close"
    /\ SourceFailed(p, proc[p], "CloseError")
    /\ UNCHANGED <<impl, ledger, calls, schemaApplied>>

(***************************************************************************)
(* MigrateUpData: the restore transaction.                                 *)
(***************************************************************************)
\* mutant: the restore transaction inserts the sentinel row again
RestoreRow_sentinel(saved) == OpenRow

\* mutant: the version is decremented instead of restored
RestoreRow_decrement(saved) == Row(saved.Version - 1, saved.Dirty)

\* Client: the row the restore transaction inserts
RestoreRow(saved) == Row(saved.Version, saved.Dirty)

\* mutant: the restore transaction inserts without deleting
Restored_insertOnly(l, saved) == l \cup {RestoreRow(saved)}

\* what the restore transaction leaves in the table when it commits
Restored(l, saved) ==
    IF impl = "Client" THEN ReplaceAll(RestoreRow(saved))
    ELSE UpdateVersion(l, saved.Version)

\* the restore transaction commits and the call returns nil
Restore(p) ==
    /\ proc[p].pc = "restore"
    /\ ledger' = Restored(ledger, proc[p].saved)
    /\ Return(p, [proc[p] EXCEPT !.log = Append(@, Event("restored", 0, 0)),
                                 !.window = "restored"], "nil")
    /\ UNCHANGED <<impl, calls, schemaApplied>>

\* mutant: the error of the restore transaction is logged, not returned
RestoreFail_swallowed(p) ==
    /\ proc[p].pc = "restore"
    /\ Return(p, [proc[p] EXCEPT !.log = Append(@, Event("restoreFailed", 0, 0))], "nil")
    /\ UNCHANGED <<impl, ledger, calls, schemaApplied>>

\* mutant: the failed transaction is not atomic, its Delete is applied
RestoreFail_torn(p) ==
    /\ proc[p].pc = "restore"
    /\ ledger' = {}
    /\ Return(p, [proc[p] EXCEPT !.log = Append(@, Event("restoreFailed", 0, 0))],
              "RestoreFailed")
    /\ UNCHANGED <<impl, calls, schemaApplied>>

\* the restore transaction fails: nothing is written, the error is returned
RestoreFail(p) ==
    /\ proc[p].pc = "restore"
    /\ Return(p, [proc[p] EXCEPT !.log = Append(@, Event("restoreFailed", 0, 0))],
              "RestoreFailed")
    /\ UNCHANGED <<impl, ledger, calls, schemaApplied>>

(***************************************************************************)
(* bootstrap's Run: how the caller reports what MigrateUpData returned.    *)
(***************************************************************************)
\* errors.Is(err, migrate.ErrNoChange)
IsNoChange(res) == res = "ErrNoChange"

\* mutant: Run goes on whatever the orchestrator returned
RunReportsSuccess_always(res) == TRUE

\* Run returns nil (the command does not fail) for nil and for ErrNoChange
RunReportsSuccess(res) == res = "nil" \/ IsNoChange(res)

\* the caller has logged the outcome; the call's locals are gone
RunReport(p) ==
    /\ proc[p].pc = "returned"
    /\ proc' = [proc EXCEPT ![p] =
           [IdleProc EXCEPT !.prev = IF proc[p].op = "schema" /\ proc[p].result = "nil"
                                     THEN proc[p].urls ELSE NoPrev,
                            !.orig = IF /\ proc[p].op = "data" /\ proc[p].result # "nil"
                                        /\ proc[p].window = "open"
                                        /\ ledger # {} /\ ~ReadRow(ledger).Dirty
                                     THEN proc[p].pre ELSE NoOrig]]
    /\ UNCHANGED <<impl, ledger, calls, schemaApplied, dataFailed>>

(***************************************************************************)
(* The specification: one process invoking the orchestrator, call after    *)
(* call.                                                                   *)
(***************************************************************************)
Step(p) ==
    \/ Call(p)
    \/ OpenWindowFail(p)
    \/ OpenWindow(p)
    \/ ReadVersionFail(p)
    \/ ReadVersion(p)
    \/ MigrateUpSourceError(p)
    \/ MigrateUp(p)
    \/ StepBegin(p)
    \/ StepRun(p)
    \/ StepFail(p)
    \/ StepCommit(p)
    \/ CloseSource(p)
    \/ CloseSourceFail(p)
    \/ Restore(p)
    \/ RestoreFail(p)
    \/ RunReport(p)

Next == Step(1) /\ UNCHANGED <<cli, build>>

Spec == Init /\ [][Next]_vars

(***************************************************************************)
(* One invocation of MigrateUpData, on any ledger an earlier invocation    *)
(* can have left, every store call returning: a call that can take a step  *)
(* takes it.                                                               *)
(***************************************************************************)
InitLive ==
    /\ impl \in Impls
    /\ ledger \in {{}} \cup {{Row(v, d)} : v \in defaultSchemaVersion..MaxVersion, d \in BOOLEAN}
    /\ proc = [p \in Procs |-> IdleProc]
    /\ calls = 0
    /\ schemaApplied = defaultSchemaVersion
    /\ dataFailed = FALSE
    /\ cli = NoCli
    /\ build = NoBuild

CallData(p) == Call(p) /\ proc'[p].op = "data"

NextLive ==
    /\ \/ CallData(1)
       \/ OpenWindowFail(1)
       \/ OpenWindow(1)
       \/ ReadVersionFail(1)
       \/ ReadVersion(1)
       \/ MigrateUpSourceError(1)
       \/ MigrateUp(1)
       \/ StepBegin(1)
       \/ StepRun(1)
       \/ StepFail(1)
       \/ StepCommit(1)
       \/ CloseSource(1)
       \/ CloseSourceFail(1)
       \/ Restore(1)
       \/ RestoreFail(1)
    /\ UNCHANGED <<cli, build>>

SpecLive == InitLive /\ [][NextLive]_vars /\ WF_vars(NextLive)

(***************************************************************************)
(* Two processes, each invoking MigrateUpData once, with one source, on    *)
(* the same database; the store serializes their transactions in any       *)
(* order.                                                                  *)
(***************************************************************************)
CallOneSource(p) == CallData(p) /\ Len(proc'[p].urls) = 1

DataStep(p) ==
    \/ CallOneSource(p)
    \/ OpenWindowFail(p)
    \/ OpenWindow(p)
    \/ ReadVersionFail(p)
    \/ ReadVersion(p)
    \/ MigrateUpSourceError(p)
    \/ MigrateUp(p)
    \/ StepBegin(p)
    \/ StepRun(p)
    \/ StepFail(p)
    \/ StepCommit(p)
    \/ CloseSource(p)
    \/ CloseSourceFail(p)
    \/ Restore(p)
    \/ RestoreFail(p)

NextConc ==
    /\ \E p \in Procs : DataStep(p)
    /\ UNCHANGED <<cli, build>>

SpecConc == Init /\ [][NextConc]_vars

(***************************************************************************)
(* An interrupted run: the process running the orchestrator stops (crash,  *)
(* cancellation) wherever the call is; the store keeps what was committed  *)
(* and the next run starts from there.                                     *)
(***************************************************************************)
Crash(p) ==
    /\ proc[p].pc \notin {"idle", "returned"}
    /\ proc' = [proc EXCEPT ![p] = [IdleProc EXCEPT !.stopped = proc[p].pc]]
    /\ dataFailed' = (dataFailed \/ proc[p].op = "data")
    /\ UNCHANGED <<impl, ledger, calls, schemaApplied, cli, build>>

NextCrash ==
    \/ Next
    \/ Crash(1)

SpecCrash == Init /\ [][NextCrash]_vars

(***************************************************************************)
(* The commands: one run of `drop` or of `bootstrap`, from RunE to the     *)
(* end of the command.  The orchestrator is seen from outside here: a call *)
(* returns one of its results.  The record cli holds                       *)
(*   cmd, rev   the command and the revision of its source that runs       *)
(*   appEnv, whitelist   os.LookupEnv of _APP_ENV, _DB_DROP_ENV_WHITELIST  *)
(*   schemaDir, dataDirs the flags of bootstrap                            *)
(*   called     the orchestrator operations invoked so far                 *)
(*   failed     those that returned an error other than ErrNoChange        *)
(*   runErr     what Run returned;  exit  how the command ended            *)
(* A string of the environment is a sequence of tokens: words, "," and " ".*)
(***************************************************************************)
Comma == ","
Space == " "
EnvWords == {"prd", "prod", "production", "dev"}
StringsOf(S, n) == UNION {[1..k -> S] : k \in 0..n}

\* strings.SplitSeq(s, ","): the pieces between the commas, one piece (the
\* empty string) for the empty string
RECURSIVE SplitSeq(_)
SplitSeq(s) ==
    IF \A i \in 1..Len(s) : s[i] # Comma THEN <<s>>
    ELSE LET i == Min({k \in 1..Len(s) : s[k] = Comma})
         IN  <<SubSeq(s, 1, i - 1)>> \o SplitSeq(SubSeq(s, i + 1, Len(s)))

\* mutant: the entries are taken as they are written
TrimSpace_none(s) == s

\* strings.TrimSpace
RECURSIVE TrimSpace(_)
TrimSpace(s) ==
    IF s = <<>> THEN s
    ELSE IF Head(s) = Space THEN TrimSpace(Tail(s))
    ELSE IF s[Len(s)] = Space THEN TrimSpace(SubSeq(s, 1, Len(s) - 1))
    ELSE s

\* the keys of the map allowedEnvs built from _DB_DROP_ENV_WHITELIST
allowedEnvs(s) == {TrimSpace(SplitSeq(s)[i]) : i \in 1..Len(SplitSeq(s))}

DropRevs == {"dropschema.go", "part_001"}
BootstrapRevs == {"bootstrap.go/1", "bootstrap.go/2", "part_003"}
OrchestratorResults == {"nil", "ErrNoChange", "StepFailed", "LedgerUnreadable"}

\* m.Drop(): every table of the database is dropped, the migrations table
\* with them, so the ledger holds no row
Dropped(l) == {}

\* the table after MigrateDropSchema returned res: dropped when it returned
\* nil; an error comes from setting up the migrate instance (nothing
\* dropped), from m.Drop() itself, or from m.Close() after the drop
AfterDrop(l, res) == IF res = "nil" THEN {Dropped(l)} ELSE {l, Dropped(l)}

\* the runs of drop: the environment is the input
DropRuns ==
    {[NoCli EXCEPT !.cmd = "drop", !.rev = r, !.pc = "RunE", !.appEnv = a, !.whitelist = w] :
        r \in DropRevs,
        a \in {Unset} \cup {EnvVar(TRUE, v) : v \in StringsOf(EnvWords, 1)},
        w \in {Unset} \cup {EnvVar(TRUE, v) :
                                v \in StringsOf(EnvWords \cup {Comma, Space}, MaxListLen)}}

\* the runs of bootstrap: the flags are the input (one --data-dir in the
\* revision that takes a single directory)
BootstrapRuns ==
    {c \in {[NoCli EXCEPT !.cmd = "bootstrap", !.rev = r, !.pc = "RunE",
                          !.schemaDir = s, !.dataDirs = n] :
                r \in BootstrapRevs, s \in {"", "file://schema/migrations"},
                n \in 0..MaxSources} :
        c.rev = "bootstrap.go/2" => c.dataDirs = 1}

\* the migrate client the revision's config holds: part_003 is the revision
\* that runs on SpannerMigrationService
ClientOf(rev) == IF rev = "part_003" THEN "Service" ELSE "Client"

InitCli ==
    /\ cli \in DropRuns \cup BootstrapRuns
    /\ impl = ClientOf(cli.rev)
    /\ ledger \in InitLedgers
    /\ proc = [p \in Procs |-> IdleProc]
    /\ calls = 0
    /\ schemaApplied = defaultSchemaVersion
    /\ dataFailed = FALSE
    /\ build = NoBuild

Orchestrator == <<impl, ledger, proc, calls, schemaApplied, dataFailed>>

\* the orchestrator operation op is invoked and returns res
Invoke(c, op, res) ==
    [c EXCEPT !.called = @ \cup {op},
              !.failed = IF res = "nil" \/ IsNoChange(res) THEN @ ELSE @ \cup {op}]

\* Run returns err to RunE
RunReturns(c, err) == cli' = [c EXCEPT !.pc = "ran", !.runErr = err]

\* c.ValidateFlags(cmd): nil, or the error RunE returns at once
ValidateFlags_cli(c) ==
    IF c.cmd = "bootstrap" /\ c.rev = "part_003" /\ c.schemaDir = ""
        THEN "schema-dir flag is required"
    ELSE IF c.cmd = "bootstrap" /\ c.rev \in {"part_003", "bootstrap.go/1"} /\ c.dataDirs = 0
        THEN "at least one data-dir flag is required"
    ELSE "nil"

\* the statement of Run that follows newConfig
AfterConfig(c) ==
    IF c.cmd = "bootstrap" THEN "schema"
    ELSE IF c.rev = "part_001" THEN "env" ELSE "drop"

\* RunE: `if err := c.ValidateFlags(cmd); err != nil { return err }`
RunEValidate ==
    /\ cli.pc = "RunE"
    /\ cli' = IF ValidateFlags_cli(cli) = "nil"
              THEN [cli EXCEPT !.pc = "config"]
              ELSE [cli EXCEPT !.pc = "done", !.exit = "failure"]
    /\ UNCHANGED <<Orchestrator, build>>

\* Run: newConfig(ctx) succeeds
NewConfig ==
    /\ cli.pc = "config"
    /\ cli' = [cli EXCEPT !.pc = AfterConfig(cli)]
    /\ UNCHANGED <<Orchestrator, build>>

\* Run: newConfig(ctx) fails (environment not processed, no connection)
NewConfigFail ==
    /\ cli.pc = "config"
    /\ RunReturns(cli, "failed to initialize config")
    /\ UNCHANGED <<Orchestrator, build>>

\* drop's Run, part_001: the allow-list check; nil when the drop may go on
EnvCheck(appEnv, whitelist) ==
    IF ~appEnv.ok THEN "_APP_ENV environment variable is not set"
    ELSE IF ~whitelist.ok THEN "_DB_DROP_ENV_WHITELIST environment variable is not set"
    ELSE IF appEnv.val \notin allowedEnvs(whitelist.val)
        THEN "dropping schema is only allowed in allowed environments"
    ELSE "nil"

DropEnvCheck ==
    /\ cli.pc = "env"
    /\ IF EnvCheck(cli.appEnv, cli.whitelist) = "nil"
       THEN cli' = [cli EXCEPT !.pc = "drop"]
       ELSE RunReturns(cli, EnvCheck(cli.appEnv, cli.whitelist))
    /\ UNCHANGED <<Orchestrator, build>>

\* drop's Run: conf.migrateClient.MigrateDropSchema and what Run returns
DropSchema ==
    /\ cli.pc = "drop"
    /\ \E res \in OrchestratorResults :
           /\ RunReturns(Invoke(cli, "MigrateDropSchema", res),
                         IF RunReportsSuccess(res) THEN "nil" ELSE "failed to drop schema")
           /\ ledger' \in AfterDrop(ledger, res)
    /\ UNCHANGED <<impl, proc, calls, schemaApplied, dataFailed, build>>

\* the command calls operation op of the orchestrator
Invoked(c, op) == [c EXCEPT !.called = @ \cup {op}]

\* bootstrap's Run: the schema migrations; the revisions of bootstrap.go
\* skip them when --schema-dir is empty, the others call MigrateUpSchema
BootstrapSchema ==
    /\ cli.pc = "schema"
    /\ IF cli.rev # "part_003" /\ cli.schemaDir = ""
       THEN /\ cli' = [cli EXCEPT !.pc = "data"]
            /\ UNCHANGED Orchestrator
       ELSE /\ Call(1)
            /\ proc'[1].op = "schema"
            /\ cli' = [Invoked(cli, "MigrateUpSchema") EXCEPT !.pc = "schemaCall"]
    /\ UNCHANGED build

\* bootstrap's Run: what it does with what MigrateUpSchema returned
BootstrapSchemaReturned ==
    /\ cli.pc = "schemaCall"
    /\ RunReport(1)
    /\ LET res == proc[1].result
       IN  IF RunReportsSuccess(res)
           THEN cli' = [Invoke(cli, "MigrateUpSchema", res) EXCEPT !.pc = "data"]
           ELSE RunReturns(Invoke(cli, "MigrateUpSchema", res),
                           "failed to run schema migrations")
    /\ UNCHANGED build

\* bootstrap's Run: the data migrations, MigrateUpData(dataMigrationDirs...)
BootstrapData ==
    /\ cli.pc = "data"
    /\ Call(1)
    /\ proc'[1].op = "data"
    /\ Len(proc'[1].urls) = cli.dataDirs
    /\ cli' = [Invoked(cli, "MigrateUpData") EXCEPT !.pc = "dataCall"]
    /\ UNCHANGED build

\* bootstrap's Run: what it returns once MigrateUpData returned
BootstrapDataReturned ==
    /\ cli.pc = "dataCall"
    /\ RunReport(1)
    /\ LET res == proc[1].result
       IN  RunReturns(Invoke(cli, "MigrateUpData", res),
                      IF RunReportsSuccess(res) THEN "nil"
                      ELSE "failed to failed to run migrations")
    /\ UNCHANGED build

\* a step A of the orchestrator inside the call the command is waiting for
InCall(A) ==
    /\ cli.pc \in {"schemaCall", "dataCall"}
    /\ A
    /\ UNCHANGED <<cli, build>>

\* what RunE does with a non-nil error of Run: returns it wrapped, ends the
\* process with log.Fatal, or prints it with log.Println and returns nil
OnRunError(cmd, rev) ==
    IF cmd = "drop" THEN (IF rev = "dropschema.go" THEN "println" ELSE "return")
    ELSE IF rev = "bootstrap.go/1" THEN "fatal"
    ELSE IF rev = "bootstrap.go/2" THEN "return"
    ELSE "println"

\* RunE: `if err := c.Run(ctx, cmd); err != nil { ... }; return nil`
RunEFinish ==
    /\ cli.pc = "ran"
    /\ cli' = [cli EXCEPT !.pc = "done",
                          !.exit = IF cli.runErr = "nil" \/ OnRunError(cli.cmd, cli.rev) = "println"
                                   THEN "success" ELSE "failure"]
    /\ UNCHANGED <<Orchestrator, build>>

NextCli ==
    \/ RunEValidate
    \/ NewConfig
    \/ NewConfigFail
    \/ DropEnvCheck
    \/ DropSchema
    \/ BootstrapSchema
    \/ BootstrapSchemaReturned
    \/ BootstrapData
    \/ BootstrapDataReturned
    \/ InCall(OpenWindowFail(1))
    \/ InCall(OpenWindow(1))
    \/ InCall(ReadVersionFail(1))
    \/ InCall(ReadVersion(1))
    \/ InCall(MigrateUpSourceError(1))
    \/ InCall(MigrateUp(1))
    \/ InCall(StepBegin(1))
    \/ InCall(StepRun(1))
    \/ InCall(StepFail(1))
    \/ InCall(StepCommit(1))
    \/ InCall(CloseSource(1))
    \/ InCall(CloseSourceFail(1))
    \/ InCall(Restore(1))
    \/ InCall(RestoreFail(1))
    \/ RunEFinish

SpecCli == InitCli /\ [][NextCli]_vars

(***************************************************************************)
(* resolve-deployment: DeploymentResolver.Resolve for one build.  The      *)
(* record build holds the Config fields Resolve reads, what the GitHub     *)
(* API answered (compared, BehindBy; fetched, comments), the Result fields *)
(* the trigger decides, the error Resolve returns and whether the          *)
(* environment script was written.  A comment body is a sequence of        *)
(* tokens (words, digits, white space); a database name is one too.        *)
(***************************************************************************)
GcbRun == "/gcbrun"
Digits == {"1", "2", "3"}
DigitVal(d) == IF d = "1" THEN 1 ELSE IF d = "2" THEN 2 ELSE 3
Placeholder == "APPCODE_PLACEHOLDER"
AppCode == "app"
DefaultDatabaseName == <<"appdb">>

\* comment bodies: /gcbrun commands, well and ill formed, and other text
Bodies ==
    {<<GcbRun, Space, "1">>, <<GcbRun, Space, "2">>, <<GcbRun, Space, "3">>,
     <<GcbRun, Space, "1", "2">>, <<GcbRun, Space, Space, "2", Space, "x">>,
     <<GcbRun>>, <<GcbRun, Space, "x">>, <<GcbRun, Space, "1", "x">>,
     <<GcbRun, "1">>, <<Space, GcbRun, Space, "1">>, <<"x", Space, "2">>}

\* what Issues.ListComments answers to Sort "created", Direction "desc":
\* the comments of the last day, the most recently created first
CommentLists == UNION {[1..k -> Bodies] : k \in 0..MaxComments}

\* strings.HasPrefix(body, "/gcbrun")
HasPrefix(body) == body # <<>> /\ Head(body) = GcbRun

\* the loop of parseGCBRunComment: latestBody after ranging over comments,
\* the empty string when no body has the prefix
RECURSIVE LatestBody(_)
LatestBody(comments) ==
    IF comments = <<>> THEN <<>>
    ELSE LET body == comments[Len(comments)]
         IN  IF HasPrefix(body) THEN body
             ELSE LatestBody(SubSeq(comments, 1, Len(comments) - 1))

\* strings.Fields: the pieces between runs of white space
RECURSIVE Fields(_)
Fields(s) ==
    IF s = <<>> THEN <<>>
    ELSE IF Head(s) = Space THEN Fields(Tail(s))
    ELSE LET ends == {k \in 1..Len(s) : s[k] = Space}
             n    == IF ends = {} THEN Len(s) ELSE Min(ends) - 1
         IN  <<SubSeq(s, 1, n)>> \o Fields(SubSeq(s, n + 1, Len(s)))

\* regexp `^\d+$`
AllDigits(field) == field # <<>> /\ \A k \in 1..Len(field) : field[k] \in Digits

\* strconv.Atoi of a field of digits
RECURSIVE Atoi(_)
Atoi(field) ==
    IF field = <<>> THEN 0
    ELSE 10 * Atoi(SubSeq(field, 1, Len(field) - 1)) + DigitVal(field[Len(field)])

\* parseGCBRunComment: the instance number and the error
parseGCBRunComment(comments) ==
    LET latestBody == LatestBody(comments)
        parts      == Fields(latestBody)
    IN  IF latestBody = <<>>
            THEN [n |-> 0, err |-> "no /gcbrun comment found in the last 24 hours"]
        ELSE IF Len(parts) < 2 \/ ~AllDigits(parts[2])
            THEN [n |-> 0, err |-> "no valid environment number found in comment"]
        ELSE [n |-> Atoi(parts[2]), err |-> "nil"]

\* fmt.Sprintf("%s%d", r.cfg.AppCode, instanceNumber)
TargetAppCodeOf(n) == AppCode \o ToString(n)

\* strings.ReplaceAll(template, "APPCODE_PLACEHOLDER", targetAppCode)
ReplaceAll_Placeholder(template, target) ==
    [k \in 1..Len(template) |-> IF template[k] = Placeholder THEN target ELSE template[k]]

\* zeroIndexedInstance := instanceNumber - 1
zeroIndexedInstance(n) == n - 1

\* resolvePRBuild: spannerDatabaseName, empty when no custom database is used
CustomDatabaseName(c, n) ==
    IF c.FeatureTestingCustomDBs # {} /\ zeroIndexedInstance(n) \in c.FeatureTestingCustomDBs
    THEN ReplaceAll_Placeholder(c.FeatureTestingSpannerDatabaseName, TargetAppCodeOf(n))
    ELSE <<>>

\* resolveTagBuild: `if comparison.GetBehindBy() != 0`
Rejected(behindBy) == behindBy # 0

\* mutant: a pull request number goes before a tag name
TagFirst_pr(c) == c.TagName # "" /\ c.PRNumber = 0

\* Resolve: `if r.cfg.TagName != ""` is tested before `r.cfg.PRNumber != 0`
TagFirst(c) == c.TagName # ""

BuildConfigs ==
    {[NoBuild EXCEPT !.pc = "Resolve", !.TagName = t, !.PRNumber = n,
                     !.FeatureTestingCustomDBs = dbs,
                     !.FeatureTestingSpannerDatabaseName = tpl] :
        t \in {"", "v1.0.0"}, n \in {0, 7}, dbs \in SUBSET (0..MaxCustomDB),
        tpl \in {<<>>, <<"db-", Placeholder>>}}

InitBuild ==
    /\ impl = "Client"
    /\ ledger = {}
    /\ proc = [p \in Procs |-> IdleProc]
    /\ calls = 0
    /\ schemaApplied = defaultSchemaVersion
    /\ dataFailed = FALSE
    /\ cli = NoCli
    /\ build \in BuildConfigs

\* Resolve returns (nil, err): the environment script is not written
ResolveFails(b, err) == build' = [b EXCEPT !.pc = "done", !.err = err]

\* Resolve: the Result starts from the configuration; then the trigger
ResolveTrigger ==
    /\ build.pc = "Resolve"
    /\ build' = [build EXCEPT !.TargetAppCode = AppCode,
                              !.SpannerDatabaseName = DefaultDatabaseName,
                              !.pc = IF TagFirst(build) THEN "tag"
                                     ELSE IF build.PRNumber # 0 THEN "pr"
                                     ELSE "write"]
    /\ UNCHANGED <<Orchestrator, cli>>

\* resolveTagBuild: CompareCommits fails
CompareCommitsFail ==
    /\ build.pc = "tag"
    /\ ResolveFails([build EXCEPT !.compared = TRUE], "github.Repositories.CompareCommits()")
    /\ UNCHANGED <<Orchestrator, cli>>

\* resolveTagBuild: CompareCommits answers
ResolveTagBuild ==
    /\ build.pc = "tag"
    /\ \E behindBy \in 0..MaxBehind :
           LET b == [build EXCEPT !.compared = TRUE, !.BehindBy = behindBy]
           IN  IF Rejected(behindBy)
               THEN ResolveFails(b, "build REJECTED: Tag is not on tip")
               ELSE build' = [b EXCEPT !.pc = "write"]
    /\ UNCHANGED <<Orchestrator, cli>>

\* resolvePRBuild: ListComments fails
ListCommentsFail ==
    /\ build.pc = "pr"
    /\ ResolveFails([build EXCEPT !.fetched = TRUE], "github.Issues.ListComments()")
    /\ UNCHANGED <<Orchestrator, cli>>

\* resolvePRBuild: ListComments answers; Resolve takes the target app code
\* and, when it is not empty, the database name
ResolvePRBuild ==
    /\ build.pc = "pr"
    /\ \E comments \in CommentLists :
           LET b      == [build EXCEPT !.fetched = TRUE, !.comments = comments]
               parsed == parseGCBRunComment(comments)
               name   == CustomDatabaseName(build, parsed.n)
           IN  IF parsed.err # "nil"
               THEN ResolveFails(b, parsed.err)
               ELSE build' = [b EXCEPT !.pc = "write", !.instance = parsed.n,
                                       !.TargetAppCode = TargetAppCodeOf(parsed.n),
                                       !.SpannerDatabaseName =
                                           IF name # <<>> THEN name ELSE @]
    /\ UNCHANGED <<Orchestrator, cli>>

\* writeEnvironmentScript: os.WriteFile succeeds
WriteEnvironmentScript ==
    /\ build.pc = "write"
    /\ build' = [build EXCEPT !.pc = "done", !.err = "nil", !.script = "written"]
    /\ UNCHANGED <<Orchestrator, cli>>

\* writeEnvironmentScript: os.WriteFile fails
WriteEnvironmentScriptFail ==
    /\ build.pc = "write"
    /\ ResolveFails(build, "os.WriteFile()")
    /\ UNCHANGED <<Orchestrator, cli>>

NextBuild ==
    \/ ResolveTrigger
    \/ CompareCommitsFail
    \/ ResolveTagBuild
    \/ ListCommentsFail
    \/ ResolvePRBuild
    \/ WriteEnvironmentScript
    \/ WriteEnvironmentScriptFail

SpecBuild == InitBuild /\ [][NextBuild]_vars

(***************************************************************************)
(* Vocabulary of the properties.                                           *)
(***************************************************************************)
Max(S) == CHOOSE x \in S : \A y \in S : x >= y

Returned(p) == proc[p].pc = "returned"

DataCall(p) == proc[p].op = "data"

Succeeded(p) == Returned(p) /\ proc[p].result = "nil"

IsClean(l) == l # {} /\ \A r \in l : ~r.Dirty

IsDirty(l) == \E r \in l : r.Dirty

\* positions of the log of p that hold an event e
EventsOf(p, e) == {k \in 1..Len(proc[p].log) : proc[p].log[k].ev = e}

\* positions of the log of p that hold an event e of step v of source i
StepEvents(p, e, i, v) ==
    {k \in EventsOf(p, e) : proc[p].log[k].src = i /\ proc[p].log[k].v = v}

(***************************************************************************)
(* C1 - restore exactness.  Whenever MigrateUpData, called on a clean      *)
(* ledger {V0, false} with a non-empty list of sources, has returned nil,  *)
(* the ledger is exactly the ledger of before the call, whatever number of *)
(* data steps ran.                                                         *)
(***************************************************************************)
C1_RestoreExact ==
    \A p \in Procs :
        (Succeeded(p) /\ DataCall(p) /\ IsClean(proc[p].pre)) => ledger = proc[p].pre

\* a successful call over two sources that ran three steps from {2, false}
C1_Witness ==
    /\ impl = "Client"
    /\ Succeeded(1) /\ DataCall(1)
    /\ proc[1].pre = {Row(2, FALSE)}
    /\ Len(proc[1].urls) = 2
    /\ Cardinality(EventsOf(1, "commit")) >= 2
    /\ ledger = {Row(2, FALSE)}

(***************************************************************************)
(* C2 - dirty guard of MigrateUpData.  If the ledger is {V0, true} when    *)
(* MigrateUpData is called, the call writes nothing: the ledger still is   *)
(* {V0, true} when it has returned.                                        *)
(***************************************************************************)
C2_DirtyLedgerUntouched ==
    \A p \in Procs :
        (Returned(p) /\ DataCall(p) /\ IsDirty(proc[p].pre)) => ledger = proc[p].pre

(***************************************************************************)
(* C3 - Client.MigrateUpData on a dirty ledger never invokes the Step      *)
(* Applier and runs no script: the call's log of Step Applier events stays *)
(* empty.                                                                  *)
(***************************************************************************)
C3_DirtyNoApplier ==
    \A p \in Procs :
        (impl = "Client" /\ DataCall(p) /\ IsDirty(proc[p].pre)) => proc[p].log = <<>>

\* the call returned the dirty-ledger error
C3_Witness ==
    /\ impl = "Client"
    /\ Returned(1) /\ DataCall(1)
    /\ IsDirty(proc[1].pre)
    /\ proc[1].result = "DirtyLedger"

(***************************************************************************)
(* C4 - in a successful Client.MigrateUpData every step of every supplied  *)
(* source ran exactly once.                                                *)
(***************************************************************************)
C4_EveryStepOnce ==
    \A p \in Procs :
        (impl = "Client" /\ Succeeded(p) /\ DataCall(p)) =>
            \A i \in 1..Len(proc[p].urls) : \A v \in proc[p].urls[i] :
                Cardinality(StepEvents(p, "ran", i, v)) = 1

(***************************************************************************)
(* C5 - NoChange of a source is no failure of Client.MigrateUpData: when   *)
(* the caller reports the run as successful or as "no changes", the        *)
(* restore committed and the ledger is the ledger of before the call.      *)
(***************************************************************************)
C5_NoChangeStillRestores ==
    \A p \in Procs :
        (impl = "Client" /\ Returned(p) /\ DataCall(p) /\ IsClean(proc[p].pre)
            /\ RunReportsSuccess(proc[p].result)) =>
                /\ EventsOf(p, "restored") # {}
                /\ ledger = proc[p].pre

(***************************************************************************)
(* C6 - the ledger version is the version of the last schema step fully    *)
(* applied: in every state where a call has returned, whatever it          *)
(* returned, the ledger version is that of the last schema step fully      *)
(* applied, no data migration having changed it.  The calls that ended on  *)
(* the dirty-ledger check or on NoChange are left out of this statement:   *)
(* it fails without them, on a MigrateUpData that stopped at a failing     *)
(* source and left the sentinel or a data step's version.                  *)
(***************************************************************************)
C6_VersionIsSchemaVersion ==
    \A p \in Procs :
        (Returned(p) /\ proc[p].result \notin {"DirtyLedger", "ErrNoChange"} /\ ledger # {})
            => \A r \in ledger : r.Version = schemaApplied

(***************************************************************************)
(* C7 - fail fast.  Once a step of a data source has failed, the call has  *)
(* returned an error, nothing was done after the failure (no later source  *)
(* was handed to the Step Applier, no step ran) and the ledger is dirty.   *)
(***************************************************************************)
C7_FailFast ==
    \A p \in Procs :
        (DataCall(p) /\ EventsOf(p, "failed") # {}) =>
            /\ Returned(p)
            /\ proc[p].result # "nil"
            /\ EventsOf(p, "failed") = {Len(proc[p].log)}
            /\ IsDirty(ledger)

\* the second step of the first of two sources failed
C7_Witness ==
    /\ Returned(1) /\ DataCall(1)
    /\ Len(proc[1].urls) = 2
    /\ StepEvents(1, "commit", 1, 1) # {}
    /\ StepEvents(1, "failed", 1, 2) # {}
    /\ proc[1].result = "StepFailed"
    /\ IsDirty(ledger)

(***************************************************************************)
(* C8 - strict ordering.  The Step Applier events of a MigrateUpData call  *)
(* follow the order of the caller's list: an event of a source is never    *)
(* followed by an event of an earlier source, and when a later source has  *)
(* an event, every step begun for an earlier source was committed before   *)
(* it (so no two sources have a step in progress at once).  For the        *)
(* Client, whose first source runs from the sentinel, every step of the    *)
(* first source was committed before the second source has any event.      *)
(***************************************************************************)
C8_StrictOrdering ==
    \A p \in Procs : DataCall(p) =>
        LET log   == proc[p].log
            steps == {k \in 1..Len(log) : log[k].src > 0}
        IN  /\ \A j, k \in steps : j < k => log[j].src <= log[k].src
            /\ \A j, k \in steps :
                   (log[j].ev = "begin" /\ log[j].src < log[k].src) =>
                       \E c \in StepEvents(p, "commit", log[j].src, log[j].v) : j < c /\ c < k
            /\ \A k \in steps :
                   (impl = "Client" /\ log[k].src = 2) =>
                       \A v \in proc[p].urls[1] :
                           \E c \in StepEvents(p, "commit", 1, v) : c < k

\* both sources of a list of two had a step committed
C8_Witness ==
    /\ Succeeded(1) /\ DataCall(1)
    /\ Len(proc[1].urls) = 2
    /\ proc[1].urls[1] # proc[1].urls[2]
    /\ \E v \in Versions : StepEvents(1, "commit", 1, v) # {}
    /\ \E v \in Versions : StepEvents(1, "commit", 2, v) # {}

(***************************************************************************)
(* C9 - MigrateUpData returns nil only after the restore transaction       *)
(* committed, and returns an error when the restore transaction failed.    *)
(***************************************************************************)
C9_SuccessOnlyAfterRestore ==
    \A p \in Procs : (Returned(p) /\ DataCall(p)) =>
        /\ proc[p].result = "nil" =>
               /\ Len(proc[p].log) > 0
               /\ proc[p].log[Len(proc[p].log)].ev = "restored"
        /\ EventsOf(p, "restoreFailed") # {} => proc[p].result = "RestoreFailed"

\* the restore transaction failed after a source was applied
C9_Witness ==
    /\ Returned(1) /\ DataCall(1)
    /\ EventsOf(1, "commit") # {}
    /\ EventsOf(1, "restoreFailed") # {}
    /\ proc[1].result = "RestoreFailed"

(***************************************************************************)
(* C10 - the ledger after a failed restore of Client.MigrateUpData.        *)
(*                                                                         *)
(* As claimed (C10_LeftAtSentinel): when the restore transaction failed    *)
(* after all sources succeeded, the ledger is at the sentinel version.     *)
(*                                                                         *)
(* As amended (C10_LeftAtLastDataStep): it is left as the Step Applier     *)
(* last wrote it: clean, at the version of the last data step committed,   *)
(* which is the highest version of the last source and never the sentinel. *)
(***************************************************************************)
RestoreFailedCall(p) ==
    impl = "Client" /\ Returned(p) /\ DataCall(p) /\ proc[p].result = "RestoreFailed"

C10_LeftAtSentinel ==
    \A p \in Procs :
        RestoreFailedCall(p) => ledger = {Row(defaultSchemaVersion, FALSE)}

C10_LeftAtLastDataStep ==
    \A p \in Procs :
        RestoreFailedCall(p) =>
            LET log  == proc[p].log
                last == Max(EventsOf(p, "commit"))
            IN  /\ EventsOf(p, "commit") # {}
                /\ ledger = {Row(log[last].v, FALSE)}
                /\ log[last].v = Max(proc[p].urls[Len(proc[p].urls)])
                /\ log[last].v # defaultSchemaVersion

\* the restore failed after two sources were applied from {0, false}
C10_Witness ==
    /\ RestoreFailedCall(1)
    /\ proc[1].pre = {Row(0, FALSE)}
    /\ proc[1].urls = <<{1}, {2}>>
    /\ ledger = {Row(2, FALSE)}

(***************************************************************************)
(* C11 - idempotence of MigrateUpSchema.  When MigrateUpSchema returned    *)
(* nil and is called again on the same source, the second call leaves the  *)
(* ledger as the first left it and, unless the source could not be opened, *)
(* returns NoChange.                                                       *)
(***************************************************************************)
SchemaCall(p) == proc[p].op = "schema"

C11_SchemaTwice ==
    \A p \in Procs :
        (SchemaCall(p) /\ proc[p].prev # NoPrev /\ proc[p].prev = proc[p].urls) =>
            /\ ledger = proc[p].pre
            /\ ledger = {Row(Max(proc[p].urls[1]), FALSE)}
            /\ (Returned(p) /\ proc[p].result # "SourceError") =>
                   proc[p].result = "ErrNoChange"

\* the second run over the source {1, 2} returned NoChange
C11_Witness ==
    /\ SchemaCall(1) /\ Returned(1)
    /\ proc[1].prev = <<{1, 2}>>
    /\ proc[1].urls = <<{1, 2}>>
    /\ proc[1].result = "ErrNoChange"
    /\ ledger = {Row(2, FALSE)}

(***************************************************************************)
(* C12 - dirty guard of MigrateUpSchema.  Called on a dirty ledger,        *)
(* MigrateUpSchema runs no step, leaves the ledger as it was and returns   *)
(* an error: the dirty-ledger error once the Step Applier was invoked.     *)
(***************************************************************************)
C12_SchemaDirtyGuard ==
    \A p \in Procs :
        (SchemaCall(p) /\ IsDirty(proc[p].pre)) =>
            /\ ledger = proc[p].pre
            /\ EventsOf(p, "begin") = {} /\ EventsOf(p, "ran") = {}
            /\ Returned(p) => proc[p].result # "nil"
            /\ (Returned(p) /\ EventsOf(p, "up") # {}) => proc[p].result = "ErrDirty"

\* the Step Applier refused the dirty ledger
C12_Witness ==
    /\ SchemaCall(1) /\ Returned(1)
    /\ proc[1].pre = {Row(1, TRUE)}
    /\ proc[1].result = "ErrDirty"
    /\ ledger = {Row(1, TRUE)}

(***************************************************************************)
(* C13 - MigrateUpSchema works on the real ledger, without save and        *)
(* restore: when it has returned nil the ledger is clean at the highest    *)
(* version of the schema source, and stays so until the next call.         *)
(***************************************************************************)
C13_SchemaAdvancesLedger ==
    \A p \in Procs :
        /\ (SchemaCall(p) /\ Succeeded(p)) =>
               /\ EventsOf(p, "commit") # {}
               /\ proc[p].window = "closed"
               /\ ledger = {Row(Max(proc[p].urls[1]), FALSE)}
        /\ (proc[p].pc = "idle" /\ proc[p].prev # NoPrev) =>
               ledger = {Row(Max(proc[p].prev[1]), FALSE)}

\* two schema steps were applied from {0, false}
C13_Witness ==
    /\ SchemaCall(1) /\ Succeeded(1)
    /\ proc[1].pre = {Row(0, FALSE)}
    /\ proc[1].urls = <<{1, 2}>>
    /\ Cardinality(EventsOf(1, "commit")) = 2
    /\ ledger = {Row(2, FALSE)}

(***************************************************************************)
(* C14 - one ledger row.  A step of the orchestrator that finds one row in *)
(* the ledger table leaves one row in it, and every write leaves exactly   *)
(* one row: neither zero nor two rows become visible.                      *)
(***************************************************************************)
C14_OneLedgerRow ==
    [][ /\ Cardinality(ledger) = 1 => Cardinality(ledger') = 1
        /\ ledger' # ledger => Cardinality(ledger') = 1 ]_vars

\* the restore transaction of the Client committed over two applied sources
C14_Witness ==
    /\ impl = "Client"
    /\ DataCall(1) /\ Succeeded(1)
    /\ proc[1].window = "restored"
    /\ Len(proc[1].urls) = 2
    /\ Cardinality(ledger) = 1

(***************************************************************************)
(* C15 - the restore write replaces the version and the dirty flag         *)
(* together: the row it leaves does not depend on the row it replaces.     *)
(***************************************************************************)
LedgerRows == {{Row(v, d)} : v \in defaultSchemaVersion..MaxVersion, d \in BOOLEAN}

C15_RestoreReplacesBothFields ==
    \A p \in Procs :
        proc[p].pc = "restore" =>
            \A l1, l2 \in LedgerRows :
                Restored(l1, proc[p].saved) = Restored(l2, proc[p].saved)

(***************************************************************************)
(* C16 - in Client.MigrateUpData the sentinel write is committed before    *)
(* any step begins, and the restore transaction commits only after the     *)
(* last step: once it has, every step begun is committed and the call has  *)
(* returned.                                                               *)
(***************************************************************************)
StepEventKinds == {"up", "begin", "ran", "commit", "failed"}

C16_SaveFirstRestoreLast ==
    \A p \in Procs :
        (impl = "Client" /\ DataCall(p)) =>
            LET log == proc[p].log
            IN  /\ (\E k \in 1..Len(log) : log[k].ev \in StepEventKinds) =>
                       proc[p].window # "closed"
                /\ proc[p].pc \in {"step", "exec", "commit"} => proc[p].window = "open"
                /\ proc[p].window = "restored" =>
                       /\ Returned(p)
                       /\ EventsOf(p, "restored") = {Len(log)}
                       /\ \A k \in EventsOf(p, "begin") :
                              \E c \in StepEvents(p, "commit", log[k].src, log[k].v) : k < c

\* a step is running inside the open window
C16_Witness ==
    /\ impl = "Client"
    /\ DataCall(1)
    /\ proc[1].pc = "exec"
    /\ proc[1].window = "open"
    /\ proc[1].idx = 2

(***************************************************************************)
(* C17 - the drop command never invokes MigrateDropSchema when _APP_ENV is *)
(* prd, prod or production.                                                *)
(***************************************************************************)
ProductionEnvs == {<<"prd">>, <<"prod">>, <<"production">>}

C17_NoDropInProduction ==
    (cli.cmd = "drop" /\ cli.appEnv.ok /\ cli.appEnv.val \in ProductionEnvs) =>
        "MigrateDropSchema" \notin cli.called

(***************************************************************************)
(* C18 - no error is swallowed: a command that has ended after an          *)
(* orchestrator operation returned an error other than NoChange has ended  *)
(* in failure.                                                             *)
(***************************************************************************)
C18_NoErrorSwallowed ==
    (cli.pc = "done" /\ cli.failed # {}) => cli.exit = "failure"

(***************************************************************************)
(* C19 - no restore after a failure.  When Client.MigrateUpData returned   *)
(* because a source failed inside the open window, the restore transaction *)
(* was not attempted and the ledger is as the Step Applier last wrote it,  *)
(* or at the sentinel when it wrote nothing.                               *)
(***************************************************************************)
SourceFailures == {"StepFailed", "SourceError", "ErrNoChange", "ErrDirty", "CloseError"}

\* the ledger as the Step Applier of p last wrote it, the sentinel row if
\* it made no write
LastApplierWrite(p) ==
    LET log == proc[p].log
    IN  IF EventsOf(p, "begin") = {} THEN OpenRow
        ELSE IF log[Len(log)].ev = "failed" THEN Row(proc[p].ver, TRUE)
        ELSE Row(proc[p].ver, FALSE)

C19_NoRestoreAfterFailure ==
    \A p \in Procs :
        /\ (impl = "Client" /\ DataCall(p) /\ Returned(p) /\ proc[p].window # "closed"
                /\ proc[p].result \in SourceFailures) =>
               /\ EventsOf(p, "restored") = {} /\ EventsOf(p, "restoreFailed") = {}
               /\ proc[p].window = "open"
               /\ ledger = {LastApplierWrite(p)}
        /\ (impl = "Client" /\ DataCall(p) /\ EventsOf(p, "failed") # {}) =>
               /\ Returned(p) /\ proc[p].result = "StepFailed"
               /\ EventsOf(p, "restored") = {} /\ EventsOf(p, "restoreFailed") = {}
               /\ ledger = {Row(proc[p].ver, TRUE)}

\* the second source could not be resolved after the first was applied
C19_Witness ==
    /\ impl = "Client"
    /\ DataCall(1) /\ Returned(1)
    /\ proc[1].result = "SourceError"
    /\ proc[1].idx = 2
    /\ proc[1].pre = {Row(2, FALSE)}
    /\ ledger = {Row(1, FALSE)}

(***************************************************************************)
(* C20 - the first transaction of Client.MigrateUpData is atomic: when it  *)
(* fails (no row, read error, commit failure) the call returns an error,   *)
(* the ledger is as before the call and no source was applied; with no row *)
(* in the table it cannot but fail.                                        *)
(***************************************************************************)
C20_OpenWindowAtomic ==
    \A p \in Procs :
        (impl = "Client" /\ DataCall(p)) =>
            /\ (Returned(p) /\ proc[p].window = "closed") =>
                   /\ proc[p].result = "LedgerUnreadable"
                   /\ ledger = proc[p].pre
                   /\ proc[p].log = <<>>
            /\ proc[p].pre = {} => proc[p].window = "closed"
            /\ proc[p].window # "closed" =>
                   {Row(proc[p].saved.Version, proc[p].saved.Dirty)} = proc[p].pre

\* the transaction failed on a ledger that holds a row
C20_Witness ==
    /\ impl = "Client"
    /\ DataCall(1) /\ Returned(1)
    /\ proc[1].result = "LedgerUnreadable"
    /\ proc[1].pre = {Row(1, FALSE)}
    /\ ledger = {Row(1, FALSE)}

(***************************************************************************)
(* C21 - crash safety of a step.  While a step's script runs, and until    *)
(* its completion is committed, the ledger is dirty; when the run stops    *)
(* there, the next run finds the ledger dirty, executes no step and does   *)
(* not return success.                                                     *)
(***************************************************************************)
InsideStep == {"exec", "commit"}

C21_CrashLeavesDirty ==
    \A p \in Procs :
        /\ proc[p].pc \in InsideStep => IsDirty(ledger)
        /\ (proc[p].stopped \in InsideStep /\ proc[p].pc = "idle") => IsDirty(ledger)
        /\ (proc[p].stopped \in InsideStep /\ proc[p].pc # "idle") =>
               /\ IsDirty(proc[p].pre)
               /\ EventsOf(p, "begin") = {} /\ EventsOf(p, "ran") = {}
               /\ Returned(p) => proc[p].result # "nil"

\* the run after a crash inside a step of MigrateUpData was refused
C21_Witness ==
    /\ impl = "Client"
    /\ DataCall(1) /\ Returned(1)
    /\ proc[1].stopped = "exec"
    /\ proc[1].pre = {Row(defaultSchemaVersion, TRUE)}
    /\ proc[1].result = "DirtyLedger"

(***************************************************************************)
(* C22 - no retry.  Within one invocation the Step Applier is invoked at   *)
(* most once per listed source, each step's script is started and run at   *)
(* most once, and nothing follows the first failure: a failed step is the  *)
(* last event of the call, and a call that returned an error of a source   *)
(* has invoked the Step Applier for no later source.                       *)
(***************************************************************************)
UpEvents(p, i) == {k \in EventsOf(p, "up") : proc[p].log[k].src = i}

C22_NoRetry ==
    \A p \in Procs :
        LET log == proc[p].log
        IN  /\ \A i \in 1..MaxSources : Cardinality(UpEvents(p, i)) <= 1
            /\ \A i \in 1..MaxSources : UpEvents(p, i) # {} => i <= Len(proc[p].urls)
            /\ \A i \in 1..MaxSources, v \in Versions :
                   /\ Cardinality(StepEvents(p, "begin", i, v)) <= 1
                   /\ Cardinality(StepEvents(p, "ran", i, v)) <= 1
            /\ \A k \in EventsOf(p, "failed") : k = Len(log) /\ Returned(p)
            /\ (Returned(p) /\ proc[p].result \in SourceFailures) =>
                   \A i \in 1..MaxSources : i > proc[p].idx => UpEvents(p, i) = {}
            /\ (Returned(p) /\ proc[p].result \in {"StepFailed", "ErrNoChange", "ErrDirty"}) =>
                   /\ log # <<>>
                   /\ log[Len(log)].ev = IF proc[p].result = "StepFailed" THEN "failed" ELSE "up"
                   /\ log[Len(log)].src = proc[p].idx
            /\ (Returned(p) /\ proc[p].result = "CloseError") =>
                   /\ log # <<>>
                   /\ log[Len(log)].ev = "commit"
                   /\ log[Len(log)].src = proc[p].idx

\* the first of two sources failed and the second was not attempted
C22_Witness ==
    /\ DataCall(1) /\ Returned(1)
    /\ Len(proc[1].urls) = 2
    /\ proc[1].result = "StepFailed"
    /\ proc[1].idx = 1
    /\ UpEvents(1, 1) # {} /\ UpEvents(1, 2) = {}

(***************************************************************************)
(* C23 - termination.  Every invocation of MigrateUpData eventually        *)
(* returns, with nil or with an error, provided each store call returns;   *)
(* it does not stay in the open window for ever.                           *)
(***************************************************************************)
C23_DataCallReturns ==
    \A p \in Procs :
        (DataCall(p) /\ ~Returned(p)) ~>
            (/\ Returned(p)
             /\ proc[p].result # "none"
             /\ proc[p].result = "nil" => proc[p].window # "open")

\* a call over two sources has returned nil, its window closed again
C23_Witness ==
    /\ DataCall(1) /\ Returned(1)
    /\ Len(proc[1].urls) = 2
    /\ Cardinality(EventsOf(1, "commit")) >= 2
    /\ proc[1].window = "restored"
    /\ proc[1].result = "nil"

(***************************************************************************)
(* C24 - bootstrap runs the schema migration before the data migrations:   *)
(* nothing has been invoked when MigrateUpSchema is, MigrateUpData is      *)
(* invoked only after MigrateUpSchema returned nil or NoChange or was      *)
(* skipped for an empty --schema-dir, and never once MigrateUpSchema       *)
(* returned another error.                                                 *)
(***************************************************************************)
C24_SchemaBeforeData ==
    cli.cmd = "bootstrap" =>
        /\ cli.pc = "schema" => cli.called = {}
        /\ cli.pc = "data" => "MigrateUpData" \notin cli.called
        /\ "MigrateUpData" \in cli.called =>
               \/ "MigrateUpSchema" \in cli.called \ cli.failed
               \/ cli.schemaDir = "" /\ "MigrateUpSchema" \notin cli.called
        /\ "MigrateUpSchema" \in cli.failed =>
               /\ "MigrateUpData" \notin cli.called
               /\ cli.pc \in {"ran", "done"}
               /\ cli.runErr = "failed to run schema migrations"

\* both were invoked, MigrateUpData failing after MigrateUpSchema succeeded
C24_Witness ==
    /\ cli.cmd = "bootstrap"
    /\ cli.pc = "done"
    /\ cli.called = {"MigrateUpSchema", "MigrateUpData"}
    /\ cli.failed = {"MigrateUpData"}

(***************************************************************************)
(* C25 - the allow-list of drop (part_001).  MigrateDropSchema is invoked  *)
(* only if _APP_ENV and _DB_DROP_ENV_WHITELIST are set and the value of    *)
(* _APP_ENV is one of the entries of the list, the entries being what      *)
(* stands between the commas, white space around it left out; in every     *)
(* other case Run returns an error and MigrateDropSchema is not invoked.   *)
(* With the configuration read and the environment on the list, it is      *)
(* invoked.                                                                *)
(***************************************************************************)
\* wl[a..b] is an entry of the list wl: it reaches from a comma, or the
\* start, to the next comma, or the end
IsEntry(wl, a, b) ==
    /\ a = 1 \/ wl[a - 1] = Comma
    /\ b = Len(wl) \/ wl[b + 1] = Comma
    /\ \A k \in a..b : wl[k] # Comma

\* val is wl[a..b] without the white space on its two sides
IsTrimmed(val, wl, a, b) ==
    /\ val = <<>> \/ (val[1] # Space /\ val[Len(val)] # Space)
    /\ \E i \in a..(b + 1) :
           /\ \A k \in a..(i - 1) : wl[k] = Space
           /\ \A k \in (i + Len(val))..b : wl[k] = Space
           /\ i + Len(val) - 1 <= b
           /\ \A k \in 1..Len(val) : wl[i + k - 1] = val[k]

OnAllowList(appEnv, whitelist) ==
    /\ appEnv.ok
    /\ whitelist.ok
    /\ \E a \in 1..(Len(whitelist.val) + 1), b \in 0..Len(whitelist.val) :
           /\ a <= b + 1
           /\ IsEntry(whitelist.val, a, b)
           /\ IsTrimmed(appEnv.val, whitelist.val, a, b)

C25_DropOnlyOnAllowList ==
    (cli.cmd = "drop" /\ cli.rev = "part_001") =>
        /\ (cli.pc = "drop" \/ "MigrateDropSchema" \in cli.called) =>
               OnAllowList(cli.appEnv, cli.whitelist)
        /\ (cli.pc \in {"ran", "done"} /\ ~OnAllowList(cli.appEnv, cli.whitelist)) =>
               /\ cli.called = {}
               /\ cli.runErr \notin {"nil", "none"}
               /\ cli.pc = "done" => cli.exit = "failure"
        /\ (cli.pc \in {"ran", "done"} /\ OnAllowList(cli.appEnv, cli.whitelist)
                /\ cli.runErr # "failed to initialize config") =>
               "MigrateDropSchema" \in cli.called

\* the entry is " dev" behind a comma: the drop was made
C25_Witness ==
    /\ cli.cmd = "drop" /\ cli.rev = "part_001"
    /\ cli.appEnv = EnvVar(TRUE, <<"dev">>)
    /\ cli.whitelist = EnvVar(TRUE, <<Comma, Space, "dev">>)
    /\ "MigrateDropSchema" \in cli.called
    /\ cli.pc = "done"

(***************************************************************************)
(* C26 - for a PR build whose comments were fetched, most recent first,    *)
(* parseGCBRunComment fails when no comment starts with /gcbrun or when    *)
(* the second field of the most recent such comment is not all digits,     *)
(* and returns the number in that comment otherwise.                       *)
(***************************************************************************)
PRParsed ==
    /\ build.fetched
    /\ build.pc \in {"write", "done"}
    /\ build.err # "github.Issues.ListComments()"

\* the most recently created comment with the prefix: the first of the list
NewestGcbRun(comments) == comments[Min({k \in 1..Len(comments) : HasPrefix(comments[k])})]

C26_LatestGcbRunComment ==
    PRParsed =>
        IF \A k \in 1..Len(build.comments) : ~HasPrefix(build.comments[k])
            THEN build.err = "no /gcbrun comment found in the last 24 hours"
        ELSE LET parts == Fields(NewestGcbRun(build.comments))
             IN  IF Len(parts) < 2 \/ ~AllDigits(parts[2])
                     THEN build.err = "no valid environment number found in comment"
                 ELSE /\ build.instance = Atoi(parts[2])
                      /\ build.err \in {"none", "nil", "os.WriteFile()"}

(***************************************************************************)
(* C27 - for a PR build resolved to instance number n the database name is *)
(* the template with the placeholder replaced by AppCode followed by n if  *)
(* n is listed in FeatureTestingCustomDBs, and the default name if not.    *)
(***************************************************************************)
PRResolved == PRParsed /\ build.instance # 0

C27_CustomDBIffListed ==
    PRResolved =>
        build.SpannerDatabaseName =
            IF build.instance \in build.FeatureTestingCustomDBs
            THEN ReplaceAll_Placeholder(build.FeatureTestingSpannerDatabaseName,
                                        TargetAppCodeOf(build.instance))
            ELSE DefaultDatabaseName

(***************************************************************************)
(* C28 - Resolve: a tag name goes before a PR number (with a tag name the  *)
(* PR comments are not fetched); once CompareCommits answered, the tag     *)
(* build is rejected exactly when the commit is behind the default branch  *)
(* by one commit or more; and when the resolution of the tag or of the PR  *)
(* fails Resolve returns the error and the environment script is not       *)
(* written.                                                                *)
(***************************************************************************)
ResolutionErrors ==
    {"github.Repositories.CompareCommits()", "build REJECTED: Tag is not on tip",
     "github.Issues.ListComments()", "no /gcbrun comment found in the last 24 hours",
     "no valid environment number found in comment"}

C28_TagFirstRejectBehind ==
    /\ build.TagName # "" => ~build.fetched /\ build.pc # "pr"
    /\ (build.TagName # "" /\ build.pc \in {"write", "done"}) => build.compared
    /\ (build.TagName = "" /\ build.PRNumber # 0 /\ build.pc \in {"write", "done"}) =>
           build.fetched /\ ~build.compared
    /\ (build.compared /\ build.err # "github.Repositories.CompareCommits()") =>
           (build.BehindBy >= 1 <=> build.err = "build REJECTED: Tag is not on tip")
    /\ build.err \in ResolutionErrors => build.pc = "done" /\ build.script = "none"
    /\ build.script = "written" => build.err = "nil"

\* a tagged build that also carries a PR number was rejected, one commit
\* behind
C28_Witness ==
    /\ build.TagName # "" /\ build.PRNumber # 0
    /\ build.compared /\ build.BehindBy = 1
    /\ build.err = "build REJECTED: Tag is not on tip"
    /\ build.pc = "done" /\ build.script = "none"

(***************************************************************************)
(* C29 - recovery by re-running.  When MigrateUpData returned an error     *)
(* with its window open and left the ledger clean, and the next            *)
(* MigrateUpData returns nil, the ledger is as it was before the first of  *)
(* the two: clean at V0.                                                   *)
(***************************************************************************)
C29_RerunRestoresV0 ==
    \A p \in Procs :
        (DataCall(p) /\ Succeeded(p) /\ IsClean(proc[p].orig)) => ledger = proc[p].orig

(***************************************************************************)
(* C30 - two concurrent MigrateUpData.  As claimed: when both returned     *)
(* nil the ledger is clean at V0, the version before either started.       *)
(***************************************************************************)
BothSucceeded == \A p \in Procs : DataCall(p) /\ Succeeded(p)

C30_ConcurrentRestoresV0 ==
    BothSucceeded => ledger = {Row(schemaApplied, FALSE)}

(***************************************************************************)
(* C30, amended - when both returned nil the ledger is clean at the        *)
(* version one of the two invocations saved when it started; one of them   *)
(* saved V0, the other may have saved what the first had written by then.  *)
(***************************************************************************)
C30_ConcurrentRestoresASavedVersion ==
    BothSucceeded =>
        /\ IsClean(ledger)
        /\ \E p \in Procs : proc[p].saved.Version = schemaApplied
        /\ \E p \in Procs : ledger = {Row(proc[p].saved.Version, FALSE)}

\* both returned nil and the ledger was left at the sentinel, which the
\* second had saved inside the window of the first
C30_Witness ==
    /\ impl = "Client"
    /\ BothSucceeded
    /\ schemaApplied = 1
    /\ proc[1].saved.Version = 1
    /\ proc[2].saved.Version = defaultSchemaVersion
    /\ ledger = {Row(defaultSchemaVersion, FALSE)}

====
